---- MODULE Spec2Model ----
(***************************************************************************)
(* The QA suite runner of healthapi-qa-framework/scripts/run_qa_suite.py:  *)
(* main() parses --category, then either runs one category runner or       *)
(* QASuiteRunner.run_full_suite, which runs the seven runners in order,    *)
(* collects their results in self.results and writes the summary report.   *)
(*                                                                         *)
(* Python dicts are modelled as TLA+ records whose DOMAIN is the set of    *)
(* keys the code puts into the dict; the insertion-ordered dict            *)
(* self.results is a sequence of [key, value] entries.  None is <<>> and a *)
(* value that is present is a one-element sequence.                        *)
(***************************************************************************)
EXTENDS Integers, Sequences, FiniteSets, TLC

(* ---- bounds of the environment ---------------------------------------- *)

\* largest exit code a child process returns
MaxExitCode == 1
\* largest wall-clock time (seconds) a command that completes takes
MaxElapsed == 1
\* largest number of failures (non-zero exit, timeout, launch failure,
\* runner exception) the environment produces in one full-suite run; a
\* single-category run is not limited
MaxFaults == 2

(* ---- program constants ------------------------------------------------ *)

DefaultTimeout == 300
PerformanceTimeout == 120
UsageExitCode == 2

NoCategory == "None"

\* argparse choices of --category
choices ==
    {"code_quality", "unit_tests", "functional_tests", "integration_tests",
     "contract_tests", "performance_tests", "security_tests"}

\* names the operator may type that are not among the choices
InvalidCategories == {"unit", "quality"}

CliInputs == {NoCategory} \cup choices \cup InvalidCategories

\* the (cmd, name) list of run_code_quality_checks, by name
checks ==
    << "Black Code Formatting", "Import Sorting", "Flake8 Linting",
       "Pylint Analysis", "Security Analysis", "Dependency Security" >>

\* cmd[0] of each entry of that list, in the same order
check_tools == << "black", "isort", "flake8", "pylint", "bandit", "safety" >>

Runners ==
    {"run_code_quality_checks", "run_unit_tests", "run_functional_tests",
     "run_integration_tests", "run_contract_tests", "run_performance_tests",
     "run_security_tests"}

\* test_categories with unit_tests and functional_tests listed the other way
test_categories_swapped ==
    << [name |-> "code_quality",      runner |-> "run_code_quality_checks"],
       [name |-> "functional_tests",  runner |-> "run_functional_tests"],
       [name |-> "unit_tests",        runner |-> "run_unit_tests"],
       [name |-> "integration_tests", runner |-> "run_integration_tests"],
       [name |-> "contract_tests",    runner |-> "run_contract_tests"],
       [name |-> "performance_tests", runner |-> "run_performance_tests"],
       [name |-> "security_tests",    runner |-> "run_security_tests"] >>

\* the list of (category_name, test_function) of run_full_suite
test_categories ==
    << [name |-> "code_quality",      runner |-> "run_code_quality_checks"],
       [name |-> "unit_tests",        runner |-> "run_unit_tests"],
       [name |-> "functional_tests",  runner |-> "run_functional_tests"],
       [name |-> "integration_tests", runner |-> "run_integration_tests"],
       [name |-> "contract_tests",    runner |-> "run_contract_tests"],
       [name |-> "performance_tests", runner |-> "run_performance_tests"],
       [name |-> "security_tests",    runner |-> "run_security_tests"] >>

\* category_methods with the unit_tests entry pasted from the next line
category_methods_pasted ==
    [c \in choices |->
        CASE c = "code_quality"      -> "run_code_quality_checks"
          [] c = "unit_tests"        -> "run_functional_tests"
          [] c = "functional_tests"  -> "run_functional_tests"
          [] c = "integration_tests" -> "run_integration_tests"
          [] c = "contract_tests"    -> "run_contract_tests"
          [] c = "performance_tests" -> "run_performance_tests"
          [] c = "security_tests"    -> "run_security_tests"]

\* the dict category_methods of main()
category_methods ==
    [c \in choices |->
        CASE c = "code_quality"      -> "run_code_quality_checks"
          [] c = "unit_tests"        -> "run_unit_tests"
          [] c = "functional_tests"  -> "run_functional_tests"
          [] c = "integration_tests" -> "run_integration_tests"
          [] c = "contract_tests"    -> "run_contract_tests"
          [] c = "performance_tests" -> "run_performance_tests"
          [] c = "security_tests"    -> "run_security_tests"]

\* the "category" string each runner puts into the dict it returns
RunnerCategory(runner) ==
    CASE runner = "run_code_quality_checks" -> "code_quality"
      [] runner = "run_unit_tests"          -> "unit_tests"
      [] runner = "run_functional_tests"    -> "functional_tests"
      [] runner = "run_integration_tests"   -> "integration_tests"
      [] runner = "run_contract_tests"      -> "contract_tests"
      [] runner = "run_performance_tests"   -> "performance_tests"
      [] runner = "run_security_tests"      -> "security_tests"

\* the names a runner passes to run_command, in call order
RunnerCommands(runner) ==
    CASE runner = "run_code_quality_checks" -> checks
      [] runner = "run_unit_tests"          -> << "Unit Tests" >>
      [] runner = "run_functional_tests"    -> << "Functional Tests" >>
      [] runner = "run_integration_tests"   -> << "Integration Tests" >>
      [] runner = "run_contract_tests"      -> << "Contract Tests" >>
      [] runner = "run_performance_tests"   -> << "Performance Tests" >>
      [] runner = "run_security_tests"      -> << "Security Tests" >>

\* the timeout a runner passes to run_command
RunnerTimeout(runner) ==
    IF runner = "run_performance_tests" THEN PerformanceTimeout
                                        ELSE DefaultTimeout

\* exceptions the filesystem steps of run_unit_tests can raise (str(e))
SetupErrors == {"FileNotFoundError: tests/unit"}
\* exceptions subprocess.run raises when the child cannot be started
LaunchErrors == {"FileNotFoundError: executable"}

(* ---- the dicts run_command returns ------------------------------------ *)

\* success taken from "exit code at most 1"
CompletedResult_lenient(name, returncode, duration) ==
    [name        |-> name,
     success     |-> (returncode <= 1),
     duration    |-> duration,
     stdout      |-> "stdout",
     stderr      |-> IF returncode = 0 THEN "" ELSE "stderr",
     return_code |-> returncode]

\* the exit code reported as 0 whatever the child returned
CompletedResult_drops_code(name, returncode, duration) ==
    [name        |-> name,
     success     |-> (returncode = 0),
     duration    |-> duration,
     stdout      |-> "stdout",
     stderr      |-> IF returncode = 0 THEN "" ELSE "stderr",
     return_code |-> 0]

\* the dict of a command that ran to completion
CompletedResult(name, returncode, duration) ==
    [name        |-> name,
     success     |-> (returncode = 0),
     duration    |-> duration,
     stdout      |-> "stdout",
     stderr      |-> IF returncode = 0 THEN "" ELSE "stderr",
     return_code |-> returncode]

\* the timeout dict with the duration left at zero
TimeoutResult_zero_duration(name, timeout) ==
    [name     |-> name,
     success  |-> FALSE,
     duration |-> 0,
     error    |-> "Timeout"]

\* the dict of the except subprocess.TimeoutExpired branch
TimeoutResult(name, timeout) ==
    [name     |-> name,
     success  |-> FALSE,
     duration |-> timeout,
     error    |-> "Timeout"]

\* the launch-failure dict padded with empty output
ErrorResult_with_output(name, e) ==
    [name    |-> name,
     success |-> FALSE,
     stdout  |-> "",
     stderr  |-> "",
     error   |-> e]

\* the dict of the except Exception branch
ErrorResult(name, e) ==
    [name    |-> name,
     success |-> FALSE,
     error   |-> e]

(* ---- the dicts the runners return ------------------------------------- *)

RECURSIVE SuccessCount(_)
\* sum(1 for r in results if r["success"])
SuccessCount(rs) ==
    IF rs = <<>> THEN 0
    ELSE (IF Head(rs).success THEN 1 ELSE 0) + SuccessCount(Tail(rs))

\* true division of two ints, kept exact as numerator and denominator
Divide(n, d) == << n, d >>

\* run_code_quality_checks passing as soon as one tool succeeds
QualityResult_any(rs) ==
    [category     |-> "code_quality",
     results      |-> rs,
     success_rate |-> Divide(SuccessCount(rs), Len(rs)),
     passed       |-> (SuccessCount(rs) > 0)]

\* the return value of run_code_quality_checks
QualityResult(rs) ==
    [category     |-> "code_quality",
     results      |-> rs,
     success_rate |-> Divide(SuccessCount(rs), Len(rs)),
     passed       |-> (SuccessCount(rs) = Len(rs))]

\* a runner that reports passed whatever its sub-command did
TestResult_always_passed(category, r) ==
    [category |-> category,
     results  |-> << r >>,
     passed   |-> TRUE]

\* a runner that takes a result without a return code as a pass
TestResult_no_code_passes(category, r) ==
    [category |-> category,
     results  |-> << r >>,
     passed   |-> ("return_code" \notin DOMAIN r \/ r.return_code = 0)]

\* the return value of the six runners with one sub-command
TestResult(category, r) ==
    [category |-> category,
     results  |-> << r >>,
     passed   |-> r.success]

RunnerResult(runner, rs) ==
    IF runner = "run_code_quality_checks"
    THEN QualityResult(rs)
    ELSE TestResult(RunnerCategory(runner), rs[1])

\* the dict the except branch of run_full_suite stores
ExceptionResult(category_name, e) ==
    [category |-> category_name,
     passed   |-> FALSE,
     error    |-> e]

(* ---- the insertion-ordered dict self.results --------------------------- *)

Keys(d) == [i \in 1..Len(d) |-> d[i].key]
HasKey(d, k) == \E i \in 1..Len(d) : d[i].key = k
Get(d, k) == d[CHOOSE i \in 1..Len(d) : d[i].key = k].value

\* d[k] = v: a new key goes to the end, an existing key keeps its place
Put(d, k, v) ==
    IF HasKey(d, k)
    THEN [i \in 1..Len(d) |->
            IF d[i].key = k THEN [key |-> k, value |-> v] ELSE d[i]]
    ELSE Append(d, [key |-> k, value |-> v])

(* ---- generate_summary_report ------------------------------------------ *)

RECURSIVE PassedCount_drops_last(_)
\* the count that leaves out the last entry of self.results
PassedCount_drops_last(d) ==
    IF Len(d) <= 1 THEN 0
    ELSE (IF Head(d).value.passed THEN 1 ELSE 0)
            + PassedCount_drops_last(Tail(d))

RECURSIVE PassedCount(_)
\* sum(1 for r in self.results.values() if r["passed"])
PassedCount(d) ==
    IF d = <<>> THEN 0
    ELSE (IF Head(d).value.passed THEN 1 ELSE 0) + PassedCount(Tail(d))

\* the status test written as "some category passed"
OverallStatus_some(passed_categories, total_categories) ==
    IF passed_categories > 0 THEN "PASSED" ELSE "FAILED"

OverallStatus(passed_categories, total_categories) ==
    IF passed_categories = total_categories THEN "PASSED" ELSE "FAILED"

\* the rate without the guard against zero categories
SummaryRate_unguarded(passed_categories, total_categories) ==
    Divide(passed_categories, total_categories)

SummaryRate(passed_categories, total_categories) ==
    IF total_categories > 0 THEN Divide(passed_categories, total_categories)
                            ELSE Divide(0, 1)

Summary(d, now, started_at) ==
    [timestamp         |-> now,
     total_duration    |-> now - started_at,
     total_categories  |-> Len(d),
     passed_categories |-> PassedCount(d),
     success_rate      |-> SummaryRate(PassedCount(d), Len(d)),
     overall_status    |-> OverallStatus(PassedCount(d), Len(d)),
     categories        |-> d]

(* ---- state ------------------------------------------------------------- *)

VARIABLES
    argCategory,  \* args.category as typed on the command line
    elapsed,      \* seconds a command of this run takes when it completes
    pc,           \* where the process is
    idx,          \* position of run_full_suite's for loop in test_categories
    current,      \* the runner being executed, or NoCategory
    partial,      \* ExecutionResults the current runner has collected
    child,        \* name of the running child process, or NoCategory
    clock,        \* time.time()
    start_time,   \* self.start_time
    cmd_start,    \* start_time local of run_command
    results,      \* self.results
    summary,      \* the summary generate_summary_report returned
    report,       \* content of qa_suite_summary.json
    result,       \* local result of main() in single-category mode
    exitCode,     \* process exit status, -1 while running
    uncaught,     \* message of an exception that left main(), or <<>>
    started,      \* history: runners called, in call order
    executed,     \* history: names passed to run_command, in call order
    outcomes,     \* history: what happened to each executed command
    raised,       \* history: [runner, error] of runners that raised
    faults        \* history: failures produced so far

\* the state of scripts/run_qa_suite.py
qaVars == << argCategory, elapsed, pc, idx, current, partial, child, clock,
             start_time, cmd_start, results, summary, report, result, exitCode,
             uncaught, started, executed, outcomes, raised, faults >>

(* ---- scripts/run_sonar_analysis.py ------------------------------------- *)

VARIABLES
    sn_pc,          \* where run_sonar_analysis.py is
    sn_skip_tests,  \* args.skip_tests
    sn_waited,      \* time.time() - start_time in wait_for_sonar_server
    sn_tests,       \* what run_tests_with_coverage did, "none" before
    sn_static,      \* what run_static_analysis did, "none" before
    sn_scanner,     \* what run_sonar_scanner did, "none" before
    sn_gate,        \* what get_quality_gate_status answered, "none" before
    sn_success,     \* << value run_full_analysis returned >>, or <<>>
    sn_exit,        \* process exit status, -1 while running
    sn_server_up,   \* history: a check_sonar_server call returned True
    sn_steps        \* history: steps of run_full_analysis, in call order

snVars == << sn_pc, sn_skip_tests, sn_waited, sn_tests, sn_static, sn_scanner,
             sn_gate, sn_success, sn_exit, sn_server_up, sn_steps >>

(* ---- tests/security/security_test_runner.py ---------------------------- *)

VARIABLES
    sc_pc,          \* where run_basic_security_scan is
    sc_available,   \* what check_api_availability returned
    sc_checks,      \* scan_results["checks"]
    sc_return,      \* << dict run_basic_security_scan returned >>, or <<>>
    sc_called,      \* history: check functions called, in call order
    sc_raised       \* history: check functions that raised

scVars == << sc_pc, sc_available, sc_checks, sc_return, sc_called,
             sc_raised >>

(* ---- api/main.py and the pytest session of tests/conftest.py ----------- *)

VARIABLES
    t_test,         \* the test function the session runs
    t_input,        \* the patient_data dict the test posts
    t_threads,      \* num_threads of a concurrency test
    fx_pc,          \* where the api_client fixture is
    fx_attempt,     \* attempt of the fixture's for loop
    fx_ok,          \* history: a GET /health of the fixture answered 200
    t_pc,           \* where the test function's own thread is
    t_idx,          \* position of the test's loop over its threads
    calls,          \* caller -> the make_request call it is in or has left
    th_pc,          \* thread -> where the thread is
    th_statuses,    \* thread -> status codes the thread has received
    thread_results, \* the results queue / list the threads share
    created,        \* << response of the POST >>, or <<>>
    listed,         \* << response of the GET after it >>, or <<>>
    collected,      \* << results as the test found them after join >>
    net_faults      \* history: request exceptions produced so far

apVars == << t_test, t_input, t_threads, fx_pc, fx_attempt, fx_ok, t_pc,
             t_idx, calls, th_pc, th_statuses, thread_results, created,
             listed, collected, net_faults >>

\* everything scripts/run_qa_suite.py does not touch
otherVars == << snVars, scVars, apVars >>
\* everything scripts/run_sonar_analysis.py does not touch
sonarFrame == << qaVars, scVars, apVars >>
\* everything security_test_runner.py does not touch
scanFrame == << qaVars, snVars, apVars >>
\* everything the pytest session does not touch
sessionFrame == << qaVars, snVars, scVars >>

vars == << qaVars, otherVars >>

FullMode == argCategory = NoCategory
SingleMode == argCategory \in choices

\* the environment may still produce a failure in this run
CanFault == SingleMode \/ faults < MaxFaults

\* run_sonar_analysis.py is not running
SonarIdle ==
    /\ sn_pc = "off"
    /\ sn_skip_tests = FALSE
    /\ sn_waited = 0
    /\ sn_tests = "none"
    /\ sn_static = "none"
    /\ sn_scanner = "none"
    /\ sn_gate = "none"
    /\ sn_success = <<>>
    /\ sn_exit = -1
    /\ sn_server_up = FALSE
    /\ sn_steps = <<>>

\* security_test_runner.py is not running
ScanIdle ==
    /\ sc_pc = "off"
    /\ sc_available = FALSE
    /\ sc_checks = <<>>
    /\ sc_return = <<>>
    /\ sc_called = <<>>
    /\ sc_raised = <<>>

\* no pytest session is running
SessionIdle ==
    /\ t_test = "none"
    /\ t_input = <<>>
    /\ t_threads = 0
    /\ fx_pc = "off"
    /\ fx_attempt = 0
    /\ fx_ok = FALSE
    /\ t_pc = "off"
    /\ t_idx = 0
    /\ calls = <<>>
    /\ th_pc = <<>>
    /\ th_statuses = <<>>
    /\ thread_results = <<>>
    /\ created = <<>>
    /\ listed = <<>>
    /\ collected = <<>>
    /\ net_faults = 0

Init ==
    /\ argCategory \in CliInputs
    /\ elapsed \in 0..MaxElapsed
    /\ pc = "main"
    /\ idx = 0
    /\ current = NoCategory
    /\ partial = <<>>
    /\ child = NoCategory
    /\ clock = 0
    /\ start_time = 0
    /\ cmd_start = 0
    /\ results = <<>>
    /\ summary = <<>>
    /\ report = <<>>
    /\ result = <<>>
    /\ exitCode = -1
    /\ uncaught = <<>>
    /\ started = <<>>
    /\ executed = <<>>
    /\ outcomes = <<>>
    /\ raised = <<>>
    /\ faults = 0
    /\ SonarIdle
    /\ ScanIdle
    /\ SessionIdle

\* where a runner begins: run_unit_tests prepares tests/unit first
EntryPc(runner) == IF runner = "run_unit_tests" THEN "setup" ELSE "run"

(* ---- main() ------------------------------------------------------------ *)

\* an unknown --category taken as no --category at all
main_usage_error_ignored ==
    /\ pc = "main"
    /\ argCategory \notin choices \cup {NoCategory}
    /\ start_time' = clock
    /\ results' = <<>>
    /\ idx' = 1
    /\ pc' = "loop"
    /\ UNCHANGED << argCategory, elapsed, current, partial, child, clock,
                    cmd_start, summary, report, result, exitCode, uncaught,
                    started, executed, outcomes, raised, faults >>
    /\ UNCHANGED otherVars

\* parser.parse_args() rejects a --category that is not among the choices:
\* argparse prints the usage error and exits with status 2
main_usage_error ==
    /\ pc = "main"
    /\ argCategory \notin choices \cup {NoCategory}
    /\ pc' = "exit"
    /\ exitCode' = UsageExitCode
    /\ UNCHANGED << argCategory, elapsed, idx, current, partial, child, clock,
                    start_time, cmd_start, results, summary, report, result,
                    uncaught, started, executed, outcomes, raised, faults >>
    /\ UNCHANGED otherVars

\* no --category: QASuiteRunner() and runner.run_full_suite() up to the loop
main_full ==
    /\ pc = "main"
    /\ argCategory = NoCategory
    /\ start_time' = clock
    /\ results' = <<>>
    /\ idx' = 1
    /\ pc' = "loop"
    /\ UNCHANGED << argCategory, elapsed, current, partial, child, clock,
                    cmd_start, summary, report, result, exitCode, uncaught,
                    started, executed, outcomes, raised, faults >>
    /\ UNCHANGED otherVars

\* --category X: QASuiteRunner(), category_methods.get(X) and method()
main_single ==
    /\ pc = "main"
    /\ argCategory \in choices
    /\ start_time' = clock
    /\ results' = <<>>
    /\ IF argCategory \in DOMAIN category_methods
       THEN /\ current' = category_methods[argCategory]
            /\ started' = Append(started, category_methods[argCategory])
            /\ pc' = EntryPc(category_methods[argCategory])
            /\ UNCHANGED exitCode
       ELSE /\ pc' = "exit"
            /\ exitCode' = 1
            /\ UNCHANGED << current, started >>
    /\ UNCHANGED << argCategory, elapsed, idx, partial, child, clock,
                    cmd_start, summary, report, result, uncaught, executed,
                    outcomes, raised, faults >>
    /\ UNCHANGED otherVars

(* ---- how a runner hands control back to its caller -------------------- *)

\* a single-category run that reports through the summary as well
Returned_reported(v) ==
    IF FullMode
    THEN /\ results' = Put(results, test_categories[idx].name, v)
         /\ idx' = idx + 1
         /\ pc' = "loop"
         /\ UNCHANGED << result, exitCode, uncaught >>
    ELSE /\ results' = Put(results, v.category, v)
         /\ idx' = Len(test_categories) + 1
         /\ pc' = "loop"
         /\ UNCHANGED << result, exitCode, uncaught >>

\* the runner returns value v: run_full_suite stores it under the category
\* name and goes on; main() takes result["passed"] and exits
Returned(v) ==
    IF FullMode
    THEN /\ results' = Put(results, test_categories[idx].name, v)
         /\ idx' = idx + 1
         /\ pc' = "loop"
         /\ UNCHANGED << result, exitCode, uncaught >>
    ELSE /\ result' = << v >>
         /\ exitCode' = IF v.passed THEN 0 ELSE 1
         /\ pc' = "exit"
         /\ UNCHANGED << results, idx, uncaught >>

\* run_full_suite without the try/except around test_function()
Raised_unhandled(e) ==
    /\ uncaught' = << e >>
    /\ exitCode' = 1
    /\ pc' = "exit"
    /\ UNCHANGED << results, idx, result >>

\* the runner raises e: run_full_suite's except stores a failed entry and
\* goes on; main() has no handler, the interpreter prints the traceback and
\* exits with status 1
Raised(e) ==
    IF FullMode
    THEN /\ results' = Put(results, test_categories[idx].name,
                           ExceptionResult(test_categories[idx].name, e))
         /\ idx' = idx + 1
         /\ pc' = "loop"
         /\ UNCHANGED << result, exitCode, uncaught >>
    ELSE /\ uncaught' = << e >>
         /\ exitCode' = 1
         /\ pc' = "exit"
         /\ UNCHANGED << results, idx, result >>

(* ---- run_full_suite ---------------------------------------------------- *)

\* the for loop calls test_function() of the next category
run_full_suite_call ==
    /\ pc = "loop"
    /\ idx <= Len(test_categories)
    /\ current' = test_categories[idx].runner
    /\ started' = Append(started, test_categories[idx].runner)
    /\ pc' = EntryPc(test_categories[idx].runner)
    /\ UNCHANGED << argCategory, elapsed, idx, partial, child, clock,
                    start_time, cmd_start, results, summary, report, result,
                    exitCode, uncaught, executed, outcomes, raised, faults >>
    /\ UNCHANGED otherVars

(* ---- run_unit_tests: mkdir, glob and write_text of tests/unit --------- *)

run_unit_tests_setup ==
    /\ pc = "setup"
    /\ pc' = "run"
    /\ UNCHANGED << argCategory, elapsed, idx, current, partial, child, clock,
                    start_time, cmd_start, results, summary, report, result,
                    exitCode, uncaught, started, executed, outcomes, raised,
                    faults >>
    /\ UNCHANGED otherVars

run_unit_tests_setup_raises ==
    /\ pc = "setup"
    /\ CanFault
    /\ \E e \in SetupErrors :
        /\ raised' = Append(raised, [runner |-> current, error |-> e])
        /\ Raised(e)
    /\ faults' = faults + 1
    /\ current' = NoCategory
    /\ UNCHANGED << argCategory, elapsed, partial, child, clock, start_time,
                    cmd_start, summary, report, started, executed, outcomes >>
    /\ UNCHANGED otherVars

(* ---- run_command ------------------------------------------------------- *)

NextCommand == RunnerCommands(current)[Len(partial) + 1]

\* a runner that stops at the first command that did not succeed
Collected_fail_fast(r) ==
    /\ partial' = Append(partial, r)
    /\ pc' = IF Len(partial) + 1 = Len(RunnerCommands(current)) \/ ~r.success
             THEN "return" ELSE "run"

\* the runner has the dict r of its latest run_command call
Collected(r) ==
    /\ partial' = Append(partial, r)
    /\ pc' = IF Len(partial) + 1 = Len(RunnerCommands(current))
             THEN "return" ELSE "run"

\* subprocess.run starts the child and blocks
run_command_spawn ==
    /\ pc = "run"
    /\ child = NoCategory
    /\ child' = NextCommand
    /\ cmd_start' = clock
    /\ executed' = Append(executed, NextCommand)
    /\ pc' = "wait"
    /\ UNCHANGED << argCategory, elapsed, idx, current, partial, clock,
                    start_time, results, summary, report, result, exitCode,
                    uncaught, started, outcomes, raised, faults >>
    /\ UNCHANGED otherVars

\* a launch failure answered by calling subprocess.run again
run_command_launch_error_retry ==
    /\ pc = "run"
    /\ child = NoCategory
    /\ CanFault
    /\ Len(executed) < 3
    /\ cmd_start' = clock
    /\ executed' = Append(executed, NextCommand)
    /\ faults' = faults + 1
    /\ UNCHANGED << argCategory, elapsed, pc, idx, current, partial, child,
                    clock, start_time, results, summary, report, result,
                    exitCode, uncaught, started, outcomes, raised >>
    /\ UNCHANGED otherVars

\* subprocess.run cannot start the child: except Exception
run_command_launch_error ==
    /\ pc = "run"
    /\ child = NoCategory
    /\ CanFault
    /\ cmd_start' = clock
    /\ executed' = Append(executed, NextCommand)
    /\ \E e \in LaunchErrors :
        /\ outcomes' = Append(outcomes, [name |-> NextCommand,
                                         kind |-> "launch_error"])
        /\ Collected(ErrorResult(NextCommand, e))
    /\ faults' = faults + 1
    /\ UNCHANGED << argCategory, elapsed, idx, current, child, clock,
                    start_time, results, summary, report, result, exitCode,
                    uncaught, started, raised >>
    /\ UNCHANGED otherVars

\* the child exits within the timeout
run_command_exit ==
    /\ pc = "wait"
    /\ \E returncode \in 0..MaxExitCode :
        /\ returncode # 0 => CanFault
        /\ faults' = IF returncode # 0 THEN faults + 1 ELSE faults
        /\ outcomes' = Append(outcomes, [name |-> child,
                            kind |-> IF returncode = 0 THEN "exit_zero"
                                                       ELSE "exit_nonzero",
                            code |-> returncode])
        /\ Collected(CompletedResult(child, returncode,
                                     (clock + elapsed) - cmd_start))
    /\ clock' = clock + elapsed
    /\ child' = NoCategory
    /\ UNCHANGED << argCategory, elapsed, idx, current, start_time, cmd_start,
                    results, summary, report, result, exitCode, uncaught,
                    started, executed, raised >>
    /\ UNCHANGED otherVars

\* a timeout that gives up waiting without killing the child
run_command_timeout_leaves_child ==
    /\ pc = "wait"
    /\ CanFault
    /\ outcomes' = Append(outcomes, [name |-> child, kind |-> "timeout"])
    /\ Collected(TimeoutResult(child, RunnerTimeout(current)))
    /\ clock' = clock + RunnerTimeout(current)
    /\ faults' = faults + 1
    /\ UNCHANGED << argCategory, elapsed, idx, current, child, start_time,
                    cmd_start, results, summary, report, result, exitCode,
                    uncaught, started, executed, raised >>
    /\ UNCHANGED otherVars

\* the timeout expires: subprocess.run kills the child and raises
\* TimeoutExpired
run_command_timeout ==
    /\ pc = "wait"
    /\ CanFault
    /\ outcomes' = Append(outcomes, [name |-> child, kind |-> "timeout"])
    /\ Collected(TimeoutResult(child, RunnerTimeout(current)))
    /\ clock' = clock + RunnerTimeout(current)
    /\ child' = NoCategory
    /\ faults' = faults + 1
    /\ UNCHANGED << argCategory, elapsed, idx, current, start_time, cmd_start,
                    results, summary, report, result, exitCode, uncaught,
                    started, executed, raised >>
    /\ UNCHANGED otherVars

(* ---- the return statement of a runner --------------------------------- *)

runner_return ==
    /\ pc = "return"
    /\ Returned(RunnerResult(current, partial))
    /\ current' = NoCategory
    /\ partial' = <<>>
    /\ UNCHANGED << argCategory, elapsed, child, clock, start_time, cmd_start,
                    summary, report, started, executed, outcomes, raised,
                    faults >>
    /\ UNCHANGED otherVars

(* ---- the end of run_full_suite ---------------------------------------- *)

\* the summary taken one category early
generate_summary_report_early ==
    /\ pc = "loop"
    /\ idx >= Len(test_categories)
    /\ summary' = << Summary(results, clock, start_time) >>
    /\ report' = << Summary(results, clock, start_time) >>
    /\ pc' = "print"
    /\ UNCHANGED << argCategory, elapsed, idx, current, partial, child, clock,
                    start_time, cmd_start, results, result, exitCode, uncaught,
                    started, executed, outcomes, raised, faults >>
    /\ UNCHANGED otherVars

\* generate_summary_report: builds the summary and dumps it to the report
generate_summary_report ==
    /\ pc = "loop"
    /\ idx > Len(test_categories)
    /\ summary' = << Summary(results, clock, start_time) >>
    /\ report' = << Summary(results, clock, start_time) >>
    /\ pc' = "print"
    /\ UNCHANGED << argCategory, elapsed, idx, current, partial, child, clock,
                    start_time, cmd_start, results, result, exitCode, uncaught,
                    started, executed, outcomes, raised, faults >>
    /\ UNCHANGED otherVars

\* the suite ending with sys.exit(0) whatever the summary says
print_final_report_exit_zero ==
    /\ pc = "print"
    /\ exitCode' = 0
    /\ pc' = "exit"
    /\ UNCHANGED << argCategory, elapsed, idx, current, partial, child, clock,
                    start_time, cmd_start, results, summary, report, result,
                    uncaught, started, executed, outcomes, raised, faults >>
    /\ UNCHANGED otherVars

\* print_final_report, return summary["overall_status"] == "PASSED" and
\* sys.exit(0 if success else 1)
print_final_report ==
    /\ pc = "print"
    /\ exitCode' = IF summary[1].overall_status = "PASSED" THEN 0 ELSE 1
    /\ pc' = "exit"
    /\ UNCHANGED << argCategory, elapsed, idx, current, partial, child, clock,
                    start_time, cmd_start, results, summary, report, result,
                    uncaught, started, executed, outcomes, raised, faults >>
    /\ UNCHANGED otherVars

Next ==
    \/ main_usage_error
    \/ main_full
    \/ main_single
    \/ run_full_suite_call
    \/ run_unit_tests_setup
    \/ run_unit_tests_setup_raises
    \/ run_command_spawn
    \/ run_command_launch_error
    \/ run_command_exit
    \/ run_command_timeout
    \/ runner_return
    \/ generate_summary_report
    \/ print_final_report

Spec == Init /\ [][Next]_vars

\* the interpreter keeps running the process: no step that is possible is
\* postponed forever
FairSpec == Spec /\ WF_vars(Next)

TypeOK ==
    /\ pc \in {"main", "loop", "setup", "run", "wait", "return", "print",
               "exit"}
    /\ idx \in 0..(Len(test_categories) + 1)
    /\ current \in Runners \cup {NoCategory}
    /\ exitCode \in {-1, 0, 1, UsageExitCode}
    /\ Len(summary) <= 1 /\ Len(report) <= 1 /\ Len(result) <= 1

(* ---- properties -------------------------------------------------------- *)

\* the declared order of the categories and of their runners
DeclaredOrder ==
    << "code_quality", "unit_tests", "functional_tests", "integration_tests",
       "contract_tests", "performance_tests", "security_tests" >>

DeclaredRunners ==
    << "run_code_quality_checks", "run_unit_tests", "run_functional_tests",
       "run_integration_tests", "run_contract_tests", "run_performance_tests",
       "run_security_tests" >>

Range(f) == { f[i] : i \in DOMAIN f }
Last(q) == q[Len(q)]

\* C1: after a full-suite run the summary's overall_status is PASSED iff
\* every category result recorded in the run has passed == true, and FAILED
\* otherwise
C1_OverallStatusIffAllPassed ==
    \A k \in 1..Len(summary) :
        /\ summary[k].overall_status \in {"PASSED", "FAILED"}
        /\ summary[k].overall_status = "PASSED"
             <=> \A i \in 1..Len(results) : results[i].value.passed

C1_Witness ==
    /\ Len(summary) = 1
    /\ summary[1].overall_status = "FAILED"
    /\ \E i \in 1..Len(results) : results[i].value.passed

\* C2: in a full-suite run the runners are called in the declared order,
\* the next one only after the previous one has its entry in self.results,
\* and the categories of the summary are listed in that order
C2_FixedOrder ==
    FullMode =>
        /\ started = SubSeq(DeclaredRunners, 1, Len(started))
        /\ Keys(results) = SubSeq(DeclaredOrder, 1, Len(results))
        /\ Len(started) \in {Len(results), Len(results) + 1}
        /\ \A k \in 1..Len(summary) :
              Keys(summary[k].categories) = DeclaredOrder

C2_Witness ==
    /\ FullMode
    /\ pc = "exit"
    /\ Len(summary) = 1
    /\ Len(started) = 7

\* C3: in a full-suite run a runner that raises gets an entry with
\* passed == false and the error description, and every later category is
\* still run
C3_ExceptionContained ==
    FullMode =>
        /\ \A j \in 1..Len(raised) :
              /\ HasKey(results, RunnerCategory(raised[j].runner))
              /\ LET v == Get(results, RunnerCategory(raised[j].runner))
                 IN  /\ v.passed = FALSE
                     /\ "error" \in DOMAIN v
                     /\ v.error = raised[j].error
        /\ (pc = "exit" /\ raised # <<>>) => started = DeclaredRunners

C3_Witness ==
    /\ FullMode
    /\ pc = "exit"
    /\ raised # <<>>
    /\ "Security Tests" \in Range(executed)

\* C4: every full-suite run attempts all seven categories and eventually
\* reaches the report and the exit, and the summary is computed only after
\* the seventh category has been attempted
C4_AlwaysReachesReport ==
    /\ [](Len(summary) = 1 =>
            /\ started = DeclaredRunners
            /\ Keys(results) = DeclaredOrder)
    /\ (FullMode ~> (/\ pc = "exit"
                     /\ Len(report) = 1
                     /\ started = DeclaredRunners))

C4_Witness ==
    /\ FullMode
    /\ pc = "exit"
    /\ Len(report) = 1
    /\ raised # <<>>
    /\ \E j \in 1..Len(outcomes) : outcomes[j].kind # "exit_zero"

\* the quality result v states the rate and the verdict of its own results
QualityAgrees(v) ==
    LET n == Cardinality({ i \in 1..Len(v.results) : v.results[i].success })
    IN  /\ v.success_rate = << n, Len(v.results) >>
        /\ v.passed = (n = Len(v.results))

\* C5: the quality category's success_rate is the number of tools whose
\* result has success == true over the number of tools run, and passed is
\* true exactly when the two numbers are equal
C5_QualityRate ==
    /\ \A i \in 1..Len(results) :
          (results[i].key = "code_quality"
              /\ "results" \in DOMAIN results[i].value)
          => QualityAgrees(results[i].value)
    /\ \A k \in 1..Len(result) :
          result[k].category = "code_quality" => QualityAgrees(result[k])

C5_Witness ==
    /\ Len(result) = 1
    /\ result[1].category = "code_quality"
    /\ result[1].success_rate = << 3, 6 >>
    /\ result[1].passed = FALSE

\* run_command has just returned the dict of a command that timed out
JustTimedOut ==
    /\ pc \in {"run", "return"}
    /\ partial # <<>>
    /\ outcomes # <<>>
    /\ Last(outcomes).kind = "timeout"
    /\ Last(outcomes).name = Last(partial).name

ConfiguredTimeout(name) == IF name = "Performance Tests" THEN 120 ELSE 300

\* C6 as stated: a command that exceeds its timeout yields success=false,
\* timed_out=true, no exit code and a duration capped at the timeout
C6_TimedOutFlag ==
    JustTimedOut =>
        LET r == Last(partial)
        IN  /\ r.success = FALSE
            /\ "timed_out" \in DOMAIN r
            /\ r.timed_out = TRUE
            /\ "return_code" \notin DOMAIN r
            /\ r.duration <= ConfiguredTimeout(r.name)

\* C6 amended: a command that exceeds its timeout yields success=false,
\* error "Timeout" (the dict has no timed_out key), no exit code and a
\* duration equal to the timeout
C6_TimeoutError ==
    JustTimedOut =>
        LET r == Last(partial)
        IN  /\ r.success = FALSE
            /\ DOMAIN r = {"name", "success", "duration", "error"}
            /\ r.error = "Timeout"
            /\ r.duration = ConfiguredTimeout(r.name)

C6_Witness ==
    /\ JustTimedOut
    /\ Last(partial).name = "Performance Tests"

PerformanceTimedOut ==
    \E j \in 1..Len(outcomes) :
        /\ outcomes[j].name = "Performance Tests"
        /\ outcomes[j].kind = "timeout"

\* C7: when the performance command times out in a full-suite run, the
\* performance category is failed, security is still run, and the suite
\* ends with the report written
C7_PerformanceTimeout ==
    (FullMode /\ PerformanceTimedOut)
        ~> (/\ pc = "exit"
            /\ Len(report) = 1
            /\ HasKey(report[1].categories, "performance_tests")
            /\ Get(report[1].categories, "performance_tests").passed = FALSE
            /\ "Security Tests" \in Range(executed)
            /\ HasKey(report[1].categories, "security_tests"))

C7_Witness ==
    /\ FullMode
    /\ PerformanceTimedOut
    /\ pc = "exit"
    /\ Len(report) = 1
    /\ "Security Tests" \in Range(executed)

\* C8: a single-category run calls only the runner of that category: no
\* command of another category is executed, and no result of another
\* category is created or reported
C8_SingleCategoryOnly ==
    SingleMode =>
        /\ Len(started) <= 1
        /\ \A j \in 1..Len(started) :
              RunnerCategory(started[j]) = argCategory
        /\ \A j \in 1..Len(executed) :
              \E r \in Runners :
                  /\ RunnerCategory(r) = argCategory
                  /\ executed[j] \in Range(RunnerCommands(r))
        /\ \A k \in 1..Len(result) : result[k].category = argCategory
        /\ results = <<>>
        /\ summary = <<>>
        /\ report = <<>>

C8_Witness ==
    /\ SingleMode
    /\ pc = "exit"
    /\ Len(result) = 1
    /\ executed # <<>>

\* C9 as stated: with --category=unit_tests only the unit category runs and
\* the resulting summary has exactly one category entry
C9_UnitSummaryOneEntry ==
    (argCategory = "unit_tests" /\ pc = "exit") =>
        /\ started = << "run_unit_tests" >>
        /\ Len(summary) = 1
        /\ Len(summary[1].categories) = 1

\* C9 amended: with --category=unit_tests only the unit category runs; no
\* summary is built or written, and the run yields at most one category
\* result, the unit category's, with one sub-command result
C9_UnitOnlyNoSummary ==
    (argCategory = "unit_tests" /\ pc = "exit") =>
        /\ started = << "run_unit_tests" >>
        /\ \A j \in 1..Len(executed) : executed[j] = "Unit Tests"
        /\ summary = <<>>
        /\ report = <<>>
        /\ results = <<>>
        /\ Len(result) <= 1
        /\ \A k \in 1..Len(result) :
              /\ result[k].category = "unit_tests"
              /\ Len(result[k].results) = 1

C9_Witness ==
    /\ argCategory = "unit_tests"
    /\ pc = "exit"
    /\ Len(result) = 1
    /\ executed = << "Unit Tests" >>

\* C10: a category name outside the seven choices ends the process with a
\* non-zero status; no runner is called and no command is executed
C10_UnknownCategory ==
    argCategory \notin choices \cup {NoCategory} =>
        /\ started = <<>>
        /\ executed = <<>>
        /\ child = NoCategory
        /\ pc = "exit" => exitCode > 0

C10_Witness ==
    /\ argCategory \in InvalidCategories
    /\ pc = "exit"
    /\ exitCode > 0

ValidInvocation == argCategory \in choices \cup {NoCategory}

\* the scope selected on the command line passed
ScopePassed ==
    IF FullMode
    THEN Len(summary) = 1 /\ summary[1].overall_status = "PASSED"
    ELSE Len(result) = 1 /\ result[1].passed

\* C11: for every valid invocation the exit status is 0 if the selected
\* scope passed and 1 otherwise
C11_ExitStatus ==
    (ValidInvocation /\ pc = "exit") =>
        exitCode = (IF ScopePassed THEN 0 ELSE 1)

C11_Witness ==
    /\ FullMode
    /\ pc = "exit"
    /\ Len(summary) = 1
    /\ summary[1].overall_status = "FAILED"
    /\ exitCode = 1

\* a full-suite run has ended in which every sub-command exited with 0 and
\* no runner raised
AllSucceeded ==
    /\ FullMode
    /\ pc = "exit"
    /\ raised = <<>>
    /\ \A j \in 1..Len(outcomes) : outcomes[j].kind = "exit_zero"

\* C12: when all seven categories succeed in a full-suite run the report
\* has overall_status PASSED, passed_categories = 7 = total_categories, and
\* the exit code is 0
C12_AllPass ==
    AllSucceeded =>
        /\ Len(report) = 1
        /\ report[1].overall_status = "PASSED"
        /\ report[1].passed_categories = 7
        /\ report[1].total_categories = 7
        /\ exitCode = 0

C12_Witness ==
    /\ AllSucceeded
    /\ Len(report) = 1
    /\ Len(outcomes) = 12

UnitExitedOne ==
    \E j \in 1..Len(outcomes) :
        /\ outcomes[j].name = "Unit Tests"
        /\ outcomes[j].kind = "exit_nonzero"
        /\ outcomes[j].code = 1

\* C13: when the unit command exits with code 1 in a full-suite run, the
\* unit category has passed == false, every other category is still
\* executed, and the exit code is 1
C13_UnitFails ==
    (FullMode /\ UnitExitedOne) =>
        /\ HasKey(results, "unit_tests")
              => Get(results, "unit_tests").passed = FALSE
        /\ pc = "exit" =>
              /\ started = DeclaredRunners
              /\ Keys(results) = DeclaredOrder
              /\ { "Black Code Formatting", "Import Sorting",
                   "Flake8 Linting", "Pylint Analysis", "Security Analysis",
                   "Dependency Security", "Functional Tests",
                   "Integration Tests", "Contract Tests",
                   "Performance Tests", "Security Tests" }
                     \subseteq Range(executed)
              /\ exitCode = 1

C13_Witness ==
    /\ FullMode
    /\ UnitExitedOne
    /\ pc = "exit"
    /\ "Security Tests" \in Range(executed)

\* run_command has just returned the dict of a command that ran to its end
JustExited ==
    /\ pc \in {"run", "return"}
    /\ partial # <<>>
    /\ outcomes # <<>>
    /\ Last(outcomes).kind \in {"exit_zero", "exit_nonzero"}
    /\ Last(outcomes).name = Last(partial).name

\* C14: a command that ends within its timeout yields success == true
\* exactly when its exit code is 0, and the result carries that exit code
C14_SuccessIffExitZero ==
    JustExited =>
        LET r == Last(partial)
        IN  /\ r.success = (Last(outcomes).code = 0)
            /\ "return_code" \in DOMAIN r
            /\ r.return_code = Last(outcomes).code

C14_Witness ==
    /\ JustExited
    /\ Last(outcomes).code = 1
    /\ Last(partial).success = FALSE

\* run_command has just returned the dict of a command that did not start
JustLaunchFailed ==
    /\ pc \in {"run", "return"}
    /\ partial # <<>>
    /\ outcomes # <<>>
    /\ Last(outcomes).kind = "launch_error"
    /\ Last(outcomes).name = Last(partial).name

LaunchFailed ==
    \E j \in 1..Len(outcomes) : outcomes[j].kind = "launch_error"

\* C15: a command that cannot be launched yields success=false with an
\* error description and no exception, the suite goes on to its report, and
\* no command is attempted more than once
C15_LaunchFailure ==
    /\ JustLaunchFailed =>
          LET r == Last(partial)
          IN  /\ r.success = FALSE
              /\ "error" \in DOMAIN r
              /\ r.error # ""
              /\ uncaught = <<>>
    /\ \A i, j \in 1..Len(executed) : executed[i] = executed[j] => i = j
    /\ Len(outcomes) \in {Len(executed), Len(executed) - 1}
    /\ (FullMode /\ LaunchFailed /\ pc = "exit") =>
          /\ started = DeclaredRunners
          /\ Len(report) = 1

C15_Witness ==
    /\ FullMode
    /\ LaunchFailed
    /\ pc = "exit"
    /\ Len(report) = 1
    /\ \E j \in 1..Len(outcomes) : outcomes[j].kind = "timeout"

\* the one sub-command of each category other than quality
CategoryCommand(category) ==
    CASE category = "unit_tests"        -> "Unit Tests"
      [] category = "functional_tests"  -> "Functional Tests"
      [] category = "integration_tests" -> "Integration Tests"
      [] category = "contract_tests"    -> "Contract Tests"
      [] category = "performance_tests" -> "Performance Tests"
      [] category = "security_tests"    -> "Security Tests"

\* how often run_command was called for the command called name
CountExecuted(name) ==
    Cardinality({ j \in 1..Len(executed) : executed[j] = name })

\* the category entry v is the AND of its sub-commands, and a category
\* other than quality ran one command and holds one result
EntryIsConjunction(v) ==
    /\ "results" \in DOMAIN v
    /\ v.passed = (\A i \in 1..Len(v.results) : v.results[i].success)
    /\ v.category # "code_quality" =>
          /\ Len(v.results) = 1
          /\ CountExecuted(CategoryCommand(v.category)) = 1

\* C16 as stated: for every category, passed is the AND of the success
\* flags of its sub-commands, and every category other than quality calls
\* run_command exactly once and has exactly one entry in results
C16_EveryCategoryConjunction ==
    /\ \A i \in 1..Len(results) : EntryIsConjunction(results[i].value)
    /\ \A k \in 1..Len(result) : EntryIsConjunction(result[k])

\* the entry v of a category whose runner raised before its sub-command
EntryOfRaisedRunner(v) ==
    /\ "results" \notin DOMAIN v
    /\ v.passed = FALSE
    /\ "error" \in DOMAIN v
    /\ v.category # "code_quality" =>
          CountExecuted(CategoryCommand(v.category)) = 0

\* C16 amended: a category result that its runner returned is the AND of
\* its sub-commands, with one run_command call and one result for a
\* category other than quality; the entry of a runner that raised has
\* passed false, no results and no run_command call
C16_ReturnedCategoryConjunction ==
    /\ \A i \in 1..Len(results) :
          IF "results" \in DOMAIN results[i].value
          THEN EntryIsConjunction(results[i].value)
          ELSE EntryOfRaisedRunner(results[i].value)
    /\ \A k \in 1..Len(result) : EntryIsConjunction(result[k])
    /\ \A c \in choices \ {"code_quality"} :
          CountExecuted(CategoryCommand(c)) <= 1

C16_Witness ==
    /\ FullMode
    /\ pc = "exit"
    /\ raised # <<>>
    /\ \E i \in 1..Len(results) :
          /\ "results" \in DOMAIN results[i].value
          /\ results[i].key # "code_quality"
          /\ results[i].value.passed = FALSE

\* the exact quotient q lies between 0 and 1
InUnitInterval(q) == q[2] > 0 /\ 0 <= q[1] /\ q[1] <= q[2]

\* C17: every success_rate, the quality category's and the summary's, lies
\* in [0,1], also for a summary over zero categories
C17_RateInRange ==
    /\ \A t \in 0..Len(DeclaredOrder) : \A p \in 0..t :
          InUnitInterval(SummaryRate(p, t))
    /\ \A k \in 1..Len(summary) : InUnitInterval(summary[k].success_rate)
    /\ \A i \in 1..Len(results) :
          "success_rate" \in DOMAIN results[i].value
              => InUnitInterval(results[i].value.success_rate)
    /\ \A k \in 1..Len(result) :
          "success_rate" \in DOMAIN result[k]
              => InUnitInterval(result[k].success_rate)

C17_Witness ==
    /\ Len(summary) = 1
    /\ summary[1].success_rate = << 6, 7 >>
    /\ Get(results, "code_quality").success_rate = << 5, 6 >>

\* at most one child runs, and it runs only while run_command waits for it
OneChildAtMost ==
    /\ child # NoCategory <=> pc = "wait"
    /\ Len(executed) - Len(outcomes) = (IF child # NoCategory THEN 1 ELSE 0)

\* C18: execution is sequential: at most one child process runs at any
\* moment, and while it runs no other command and no category is started
C18_Sequential ==
    /\ []OneChildAtMost
    /\ [][pc = "wait" => /\ started' = started
                         /\ executed' = executed
                         /\ child' \in {child, NoCategory}]_vars

C18_Witness ==
    /\ FullMode
    /\ pc = "wait"
    /\ child = "Security Tests"
    /\ \E j \in 1..Len(outcomes) : outcomes[j].kind = "timeout"

\* C19: in every valid invocation a failure inside a category becomes
\* result data; no exception leaves main()
C19_FailuresAsData ==
    ValidInvocation => uncaught = <<>>

\* the kind of outcome the command called name had
OutcomeOf(name) ==
    outcomes[CHOOSE j \in 1..Len(outcomes) : outcomes[j].name = name].kind

\* C20 as stated: every sub-command result in the report carries name,
\* success, duration, stdout and stderr whatever its outcome, and every
\* category entry carries a results sequence
C20_FixedFields ==
    \A k \in 1..Len(report) : \A i \in 1..Len(report[k].categories) :
        LET v == report[k].categories[i].value
        IN  /\ "results" \in DOMAIN v
            /\ \A n \in 1..Len(v.results) :
                  {"name", "success", "duration", "stdout", "stderr"}
                      \subseteq DOMAIN v.results[n]

\* C20 amended: a result in the report carries name and success; duration,
\* stdout, stderr and return_code for a command that ran to its end,
\* duration and error for a timeout, error alone for a launch failure; an
\* entry returned by a runner carries results, the entry of a runner that
\* raised carries category, passed and error only
C20_FieldsByOutcome ==
    \A k \in 1..Len(report) : \A i \in 1..Len(report[k].categories) :
        LET v == report[k].categories[i].value
        IN  IF "results" \in DOMAIN v
            THEN \A n \in 1..Len(v.results) :
                    LET r == v.results[n]
                    IN  DOMAIN r =
                          CASE OutcomeOf(r.name) = "timeout" ->
                                 {"name", "success", "duration", "error"}
                            [] OutcomeOf(r.name) = "launch_error" ->
                                 {"name", "success", "error"}
                            [] OTHER ->
                                 {"name", "success", "duration", "stdout",
                                  "stderr", "return_code"}
            ELSE DOMAIN v = {"category", "passed", "error"}

C20_Witness ==
    /\ Len(report) = 1
    /\ LaunchFailed
    /\ raised # <<>>

\* the tool behind a command name of the quality category
ToolOf(name) == check_tools[CHOOSE i \in 1..Len(checks) : checks[i] = name]

\* the quality commands run so far, in call order
QualityExecuted == SelectSeq(executed, LAMBDA n : n \in Range(checks))

QualityToolOrder ==
    << "black", "isort", "flake8", "pylint", "bandit", "safety" >>

\* the quality entry v holds one result per tool, in the order of the tools
SixToolResults(v) ==
    /\ Len(v.results) = 6
    /\ [i \in 1..6 |-> ToolOf(v.results[i].name)] = QualityToolOrder
    /\ Len(QualityExecuted) = 6

\* C25: the quality category invokes black, isort, flake8, pylint, bandit
\* and safety once each, in this order, whether or not an earlier tool
\* failed, timed out or could not be launched, and its results list always
\* has six entries
C25_SixToolsInOrder ==
    /\ Len(QualityExecuted) <= 6
    /\ \A i \in 1..Len(QualityExecuted) :
          ToolOf(QualityExecuted[i]) = QualityToolOrder[i]
    /\ \A i \in 1..Len(results) :
          (results[i].key = "code_quality"
              /\ "results" \in DOMAIN results[i].value)
          => SixToolResults(results[i].value)
    /\ \A k \in 1..Len(result) :
          result[k].category = "code_quality" => SixToolResults(result[k])

C25_Witness ==
    /\ Len(result) = 1
    /\ result[1].category = "code_quality"
    /\ Len(outcomes) = 6
    /\ outcomes[1].kind = "launch_error"
    /\ outcomes[2].kind = "timeout"
    /\ outcomes[3].kind = "exit_nonzero"
    /\ outcomes[6].kind = "exit_zero"

(* ======================================================================== *)
(* scripts/run_sonar_analysis.py: SonarAnalysisRunner                       *)
(* ======================================================================== *)

\* wait_for_sonar_server(max_wait=300)
MaxWait == 300
\* time.sleep(10) between two checks
SleepSeconds == 10
\* requests.get(..., timeout=10) of check_sonar_server
CheckTimeout == 10

\* what the three subprocess steps can do: finish with exit status 0, with
\* another status, or raise inside their try block
TestOutcomes == {"passed", "failed", "error"}
StaticOutcomes == {"done", "error"}
ScannerOutcomes == {"passed", "failed", "not_found", "error"}
\* projectStatus.status of the quality gate answer, a non-200 answer, or an
\* exception of the request
GateVerdicts == {"OK", "ERROR", "UNKNOWN", "http_error", "exception"}

\* the steps in the order run_full_analysis has them
SonarSteps ==
    << "server_check", "tests", "static_analysis", "scanner", "quality_gate" >>

\* a run that runs the tests whatever --skip-tests says
AfterServer_always_tests(skip_tests) == "tests"

\* if not skip_tests: run_tests_with_coverage(); then run_static_analysis()
AfterServer(skip_tests) == IF skip_tests THEN "static" ELSE "tests"

\* run_sonar_scanner returns result.returncode == 0, False on an exception
ScannerSucceeded(o) == o = "passed"

\* a run that fails when the quality gate does not report OK
GateReturn_verdict(g) == g = "OK"

\* after the quality gate, whatever it answered: return True
GateReturn(g) == TRUE

\* main(): parse_args, SonarAnalysisRunner(), run_full_analysis up to the
\* call of wait_for_sonar_server
SonarInit ==
    /\ sn_pc = "main"
    /\ sn_skip_tests \in BOOLEAN
    /\ sn_waited = 0
    /\ sn_tests = "none"
    /\ sn_static = "none"
    /\ sn_scanner = "none"
    /\ sn_gate = "none"
    /\ sn_success = <<>>
    /\ sn_exit = -1
    /\ sn_server_up = FALSE
    /\ sn_steps = <<>>

sonar_main ==
    /\ sn_pc = "main"
    /\ sn_pc' = "wait"
    /\ sn_steps' = Append(sn_steps, "server_check")
    /\ UNCHANGED << sn_skip_tests, sn_waited, sn_tests, sn_static, sn_scanner,
                    sn_gate, sn_success, sn_exit, sn_server_up >>
    /\ UNCHANGED sonarFrame

\* the while loop of wait_for_sonar_server: check_sonar_server() is True
wait_for_sonar_server_up ==
    /\ sn_pc = "wait"
    /\ sn_waited < MaxWait
    /\ sn_server_up' = TRUE
    /\ sn_pc' = AfterServer(sn_skip_tests)
    /\ UNCHANGED << sn_skip_tests, sn_waited, sn_tests, sn_static, sn_scanner,
                    sn_gate, sn_success, sn_exit, sn_steps >>
    /\ UNCHANGED sonarFrame

\* check_sonar_server() is False, at once or after its timeout: sleep
wait_for_sonar_server_down ==
    /\ sn_pc = "wait"
    /\ sn_waited < MaxWait
    /\ \E d \in {0, CheckTimeout} : sn_waited' = sn_waited + d + SleepSeconds
    /\ UNCHANGED << sn_pc, sn_skip_tests, sn_tests, sn_static, sn_scanner,
                    sn_gate, sn_success, sn_exit, sn_server_up, sn_steps >>
    /\ UNCHANGED sonarFrame

\* the loop ends: wait_for_sonar_server returns False and run_full_analysis
\* returns False
wait_for_sonar_server_timeout ==
    /\ sn_pc = "wait"
    /\ sn_waited >= MaxWait
    /\ sn_success' = << FALSE >>
    /\ sn_pc' = "return"
    /\ UNCHANGED << sn_skip_tests, sn_waited, sn_tests, sn_static, sn_scanner,
                    sn_gate, sn_exit, sn_server_up, sn_steps >>
    /\ UNCHANGED sonarFrame

\* run_tests_with_coverage: its result only changes what is printed
run_tests_with_coverage ==
    /\ sn_pc = "tests"
    /\ \E o \in TestOutcomes : sn_tests' = o
    /\ sn_steps' = Append(sn_steps, "tests")
    /\ sn_pc' = "static"
    /\ UNCHANGED << sn_skip_tests, sn_waited, sn_static, sn_scanner, sn_gate,
                    sn_success, sn_exit, sn_server_up >>
    /\ UNCHANGED sonarFrame

\* run_static_analysis: its return value is dropped
run_static_analysis ==
    /\ sn_pc = "static"
    /\ \E o \in StaticOutcomes : sn_static' = o
    /\ sn_steps' = Append(sn_steps, "static_analysis")
    /\ sn_pc' = "scanner"
    /\ UNCHANGED << sn_skip_tests, sn_waited, sn_tests, sn_scanner, sn_gate,
                    sn_success, sn_exit, sn_server_up >>
    /\ UNCHANGED sonarFrame

\* run_sonar_scanner: if not self.run_sonar_scanner(token): return False
run_sonar_scanner ==
    /\ sn_pc = "scanner"
    /\ sn_steps' = Append(sn_steps, "scanner")
    /\ \E o \in ScannerOutcomes :
        /\ sn_scanner' = o
        /\ IF ScannerSucceeded(o)
           THEN /\ sn_pc' = "gate"
                /\ UNCHANGED sn_success
           ELSE /\ sn_pc' = "return"
                /\ sn_success' = << FALSE >>
    /\ UNCHANGED << sn_skip_tests, sn_waited, sn_tests, sn_static, sn_gate,
                    sn_exit, sn_server_up >>
    /\ UNCHANGED sonarFrame

\* get_quality_gate_status, the printing of its verdict and return True
get_quality_gate_status ==
    /\ sn_pc = "gate"
    /\ sn_steps' = Append(sn_steps, "quality_gate")
    /\ \E g \in GateVerdicts :
        /\ sn_gate' = g
        /\ sn_success' = << GateReturn(g) >>
    /\ sn_pc' = "return"
    /\ UNCHANGED << sn_skip_tests, sn_waited, sn_tests, sn_static, sn_scanner,
                    sn_exit, sn_server_up >>
    /\ UNCHANGED sonarFrame

\* main(): sys.exit(0 if success else 1)
sonar_exit ==
    /\ sn_pc = "return"
    /\ sn_exit' = IF sn_success[1] THEN 0 ELSE 1
    /\ sn_pc' = "exit"
    /\ UNCHANGED << sn_skip_tests, sn_waited, sn_tests, sn_static, sn_scanner,
                    sn_gate, sn_success, sn_server_up, sn_steps >>
    /\ UNCHANGED sonarFrame

\* the analysis script runs alone: the other programs are not started
QaIdle ==
    /\ argCategory = NoCategory
    /\ elapsed = 0
    /\ pc = "off"
    /\ idx = 0
    /\ current = NoCategory
    /\ partial = <<>>
    /\ child = NoCategory
    /\ clock = 0
    /\ start_time = 0
    /\ cmd_start = 0
    /\ results = <<>>
    /\ summary = <<>>
    /\ report = <<>>
    /\ result = <<>>
    /\ exitCode = -1
    /\ uncaught = <<>>
    /\ started = <<>>
    /\ executed = <<>>
    /\ outcomes = <<>>
    /\ raised = <<>>
    /\ faults = 0

SonarStart ==
    /\ SonarInit
    /\ QaIdle
    /\ ScanIdle
    /\ SessionIdle

SonarNext ==
    \/ sonar_main
    \/ wait_for_sonar_server_up
    \/ wait_for_sonar_server_down
    \/ wait_for_sonar_server_timeout
    \/ run_tests_with_coverage
    \/ run_static_analysis
    \/ run_sonar_scanner
    \/ get_quality_gate_status
    \/ sonar_exit

SonarSpec == SonarStart /\ [][SonarNext]_vars

\* position of a step in SonarSteps
StepRank(step) == CHOOSE i \in 1..Len(SonarSteps) : SonarSteps[i] = step

\* the steps run so far respect the order of SonarSteps, none twice
StepsInOrder ==
    \A i, j \in 1..Len(sn_steps) :
        i < j => StepRank(sn_steps[i]) < StepRank(sn_steps[j])

SonarDone == sn_pc = "exit"

\* C27: run_full_analysis runs server check, tests, static analysis, scanner
\* and quality gate in this order; a server that never answers ends the run
\* with False after the server check alone; failed tests do not stop the
\* analysis; --skip-tests leaves the tests out; a failed scanner ends the run
\* with False before the quality gate is asked
C27_StepOrder ==
    /\ StepsInOrder
    /\ sn_skip_tests => sn_tests = "none" /\ "tests" \notin Range(sn_steps)
    /\ sn_pc \in {"return", "exit"} =>
        /\ ~sn_server_up =>
            sn_steps = << "server_check" >> /\ sn_success = << FALSE >>
        /\ sn_server_up =>
            /\ ~sn_skip_tests => "tests" \in Range(sn_steps)
            /\ "static_analysis" \in Range(sn_steps)
            /\ "scanner" \in Range(sn_steps)
        /\ sn_scanner \in ScannerOutcomes \ {"passed"} =>
            /\ sn_success = << FALSE >>
            /\ "quality_gate" \notin Range(sn_steps)
            /\ sn_gate = "none"
        /\ sn_scanner = "passed" => "quality_gate" \in Range(sn_steps)

C27_Witness ==
    /\ SonarDone
    /\ sn_tests = "failed"
    /\ sn_steps = SonarSteps

\* C29: run_full_analysis returns True exactly when the server became
\* available and the scanner succeeded, whatever the tests, the static
\* analysis and the quality gate said, and the process exits with 0 exactly
\* then, an ERROR verdict of the quality gate included
C29_ReturnValue ==
    /\ sn_success # <<>> =>
        (sn_success[1] <=> (sn_server_up /\ sn_scanner = "passed"))
    /\ SonarDone => (sn_exit = 0 <=> (sn_server_up /\ sn_scanner = "passed"))
    /\ SonarDone /\ sn_gate = "ERROR" => sn_exit = 0

C29_Witness ==
    /\ SonarDone
    /\ sn_gate = "ERROR"
    /\ sn_tests = "failed"
    /\ sn_static = "error"
    /\ sn_exit = 0

(* ======================================================================== *)
(* tests/security/security_test_runner.py: run_basic_security_scan          *)
(* ======================================================================== *)

\* the checks list of run_basic_security_scan
security_checks ==
    << "SSL/TLS", "Security Headers", "Information Disclosure",
       "HTTP Methods", "Error Handling" >>

\* what str(e) of an exception leaving a check function can be
CheckErrors == {"ConnectionError"}

\* the dict a check function returns, reduced to the key the scan reads
CheckResult(passed) == [passed |-> passed]

\* except Exception as e: {"passed": False, "error": str(e)}
CheckException(e) == [passed |-> FALSE, error |-> e]

\* return {"success": True, "results": scan_results, "report_file": ...}
ScanReturn(scan_checks) == [success |-> TRUE, results |-> scan_checks]

\* return {"success": False, "error": "API não está disponível"}
UnavailableReturn == [success |-> FALSE, error |-> "unavailable"]

ScanInit ==
    /\ sc_pc = "start"
    /\ sc_available \in BOOLEAN
    /\ sc_checks = <<>>
    /\ sc_return = <<>>
    /\ sc_called = <<>>
    /\ sc_raised = <<>>

\* if not self.check_api_availability(): return
scan_unavailable ==
    /\ sc_pc = "start"
    /\ ~sc_available
    /\ sc_return' = << UnavailableReturn >>
    /\ sc_pc' = "done"
    /\ UNCHANGED << sc_available, sc_checks, sc_called, sc_raised >>
    /\ UNCHANGED scanFrame

\* the API answers: scan_results is built and the for loop begins
scan_begin ==
    /\ sc_pc = "start"
    /\ sc_available
    /\ sc_pc' = "checks"
    /\ UNCHANGED << sc_available, sc_checks, sc_return, sc_called, sc_raised >>
    /\ UNCHANGED scanFrame

\* the check the for loop is at
NextCheck == security_checks[Len(sc_called) + 1]

\* a scan whose loop ends at the first exception
scan_check_raises_stops ==
    /\ sc_pc = "checks"
    /\ Len(sc_called) < Len(security_checks)
    /\ sc_called' = security_checks
    /\ sc_raised' = Append(sc_raised, NextCheck)
    /\ \E e \in CheckErrors :
        sc_checks' = Put(sc_checks, NextCheck, CheckException(e))
    /\ UNCHANGED << sc_pc, sc_available, sc_return >>
    /\ UNCHANGED scanFrame

\* result = check_func(); scan_results["checks"][check_name] = result
scan_check_returns ==
    /\ sc_pc = "checks"
    /\ Len(sc_called) < Len(security_checks)
    /\ sc_called' = Append(sc_called, NextCheck)
    /\ \E passed \in BOOLEAN :
        sc_checks' = Put(sc_checks, NextCheck, CheckResult(passed))
    /\ UNCHANGED << sc_pc, sc_available, sc_return, sc_raised >>
    /\ UNCHANGED scanFrame

\* check_func() raises: the except clause records the failure, the loop
\* goes on
scan_check_raises ==
    /\ sc_pc = "checks"
    /\ Len(sc_called) < Len(security_checks)
    /\ sc_called' = Append(sc_called, NextCheck)
    /\ sc_raised' = Append(sc_raised, NextCheck)
    /\ \E e \in CheckErrors :
        sc_checks' = Put(sc_checks, NextCheck, CheckException(e))
    /\ UNCHANGED << sc_pc, sc_available, sc_return >>
    /\ UNCHANGED scanFrame

\* the loop is over: the results are written and returned
scan_return ==
    /\ sc_pc = "checks"
    /\ Len(sc_called) = Len(security_checks)
    /\ sc_return' = << ScanReturn(sc_checks) >>
    /\ sc_pc' = "done"
    /\ UNCHANGED << sc_available, sc_checks, sc_called, sc_raised >>
    /\ UNCHANGED scanFrame

ScanStart ==
    /\ ScanInit
    /\ QaIdle
    /\ SonarIdle
    /\ SessionIdle

ScanNext ==
    \/ scan_unavailable
    \/ scan_begin
    \/ scan_check_returns
    \/ scan_check_raises
    \/ scan_return

ScanSpec == ScanStart /\ [][ScanNext]_vars

\* the first n elements of sequence q
Prefix(q, n) == [i \in 1..n |-> q[i]]

\* C30: an unavailable API makes run_basic_security_scan return success
\* False without running a check; otherwise the five checks run in the
\* declared order, a check that raises is recorded with passed False and the
\* checks after it still run, and the scan returns success True whatever the
\* checks found
C30_ScanContainsFailures ==
    /\ Len(sc_called) <= Len(security_checks)
    /\ sc_called = Prefix(security_checks, Len(sc_called))
    /\ Keys(sc_checks) = sc_called
    /\ \A i \in 1..Len(sc_raised) :
        /\ HasKey(sc_checks, sc_raised[i])
        /\ ~Get(sc_checks, sc_raised[i]).passed
    /\ ~sc_available => sc_called = <<>>
    /\ sc_return # <<>> =>
        IF sc_available
        THEN /\ sc_return[1].success
             /\ sc_called = security_checks
             /\ Keys(sc_return[1].results) = security_checks
        ELSE /\ ~sc_return[1].success
             /\ sc_checks = <<>>

C30_Witness ==
    /\ sc_return # <<>>
    /\ sc_return[1].success
    /\ sc_raised = << "Security Headers" >>
    /\ ~Get(sc_checks, "SSL/TLS").passed
    /\ Get(sc_checks, "Error Handling").passed

(* ======================================================================== *)
(* api/main.py: the sample endpoints                                        *)
(* ======================================================================== *)

\* most threads a concurrency test starts
MaxThreads == 2
\* most request exceptions the network produces in one session
MaxNetFaults == 3

\* a string is a sequence of pieces; str.lower() works piece by piece
Lower(piece) ==
    CASE piece = "<SCRIPT"   -> "<script"
      [] piece = "</SCRIPT>" -> "</script>"
      [] OTHER               -> piece

\* d.get(k, default) of a Python dict
DictGet(d, k, default) == IF k \in DOMAIN d THEN d[k] ELSE default

\* the fixed list get_patients returns
get_patients ==
    [patients |-> << [id |-> 1, name |-> << "Joao Silva" >>, age |-> 35,
                      email |-> "joao@email.com"],
                     [id |-> 2, name |-> << "Maria Santos" >>, age |-> 28,
                      email |-> "maria@email.com"] >>,
     total |-> 2]

\* a create_patient that escapes the markup of the name it returns
create_patient_escaped(patient_data) ==
    [message |-> "Patient created successfully",
     patient |->
        [id |-> 3,
         name |-> LET n == DictGet(patient_data, "name", << "Unknown" >>)
                  IN  [i \in 1..Len(n) |->
                          IF Lower(n[i]) = "<script" THEN "&lt;script"
                                                     ELSE n[i]],
         age |-> DictGet(patient_data, "age", 0),
         email |-> DictGet(patient_data, "email", "")]]

\* create_patient(patient_data: dict)
create_patient(patient_data) ==
    [message |-> "Patient created successfully",
     patient |->
        [id |-> 3,
         name |-> DictGet(patient_data, "name", << "Unknown" >>),
         age |-> DictGet(patient_data, "age", 0),
         email |-> DictGet(patient_data, "email", "")]]

get_appointments ==
    [appointments |->
        << [id |-> 1, patient_id |-> 1, doctor |-> "Dr. Silva",
            date |-> "2025-07-10", time |-> "10:00"],
           [id |-> 2, patient_id |-> 2, doctor |-> "Dr. Santos",
            date |-> "2025-07-11", time |-> "14:30"] >>,
     total |-> 2]

health_check == [status |-> "healthy", service |-> "health-api"]

Response(status_code, json) == [status_code |-> status_code, json |-> json]

\* the routes the decorators of api/main.py declare that the tests use
Routes ==
    { << "GET", "/api/v1/patients" >>, << "POST", "/api/v1/patients" >>,
      << "GET", "/api/v1/appointments" >>, << "GET", "/health" >> }

\* FastAPI's dispatch: the handler of the route answers with 200 and its
\* return value as JSON, a path without that method with 405, any other
\* path with 404
Route(method, url, body) ==
    CASE method = "GET" /\ url = "/api/v1/patients" ->
            Response(200, get_patients)
      [] method = "POST" /\ url = "/api/v1/patients" ->
            Response(200, create_patient(body))
      [] method = "GET" /\ url = "/api/v1/appointments" ->
            Response(200, get_appointments)
      [] method = "GET" /\ url = "/health" ->
            Response(200, health_check)
      [] OTHER ->
            IF \E r \in Routes : r[2] = url
            THEN Response(405, [detail |-> "Method Not Allowed"])
            ELSE Response(404, [detail |-> "Not Found"])

(* ======================================================================== *)
(* tests/: what the tests send                                              *)
(* ======================================================================== *)

\* names the tests post: a plain one, an SQL injection payload and XSS
\* payloads of test_xss_protection
Names ==
    { << "Maria Silva" >>,
      << "'; DROP TABLE patients; --" >>,
      << "<script", ">alert('XSS')<", "/script>" >>,
      << "<", "<SCRIPT", ">alert('XSS')//<", "</SCRIPT>" >> }
Ages == {32, -5}
Emails == {"maria.silva@email.com", "email-invalido"}
PatientFields == {"name", "age", "email"}

\* every JSON object over the three fields, each field present or absent
PatientInputs ==
    { [k \in K |-> [name |-> n, age |-> a, email |-> e][k]] :
        n \in Names, a \in Ages, e \in Emails, K \in SUBSET PatientFields }

\* the tags test_xss_protection looks for in the lower-cased name
ExecutableTags == {"<script", "<img", "<iframe", "<svg", "<body"}

\* tag in name.lower()
ContainsTag(name, tag) == \E i \in 1..Len(name) : Lower(name[i]) = tag

Tests == {"workflow", "concurrent_health", "concurrent_access"}
ConcurrentTests == {"concurrent_health", "concurrent_access"}

\* the requests one thread of a concurrency test makes, in order
ThreadUrls(test) ==
    IF test = "concurrent_access"
    THEN << "/api/v1/patients", "/api/v1/appointments" >>
    ELSE << "/health" >>

(* ======================================================================== *)
(* tests/conftest.py: api_client and APITestHelper.make_request             *)
(* ======================================================================== *)

\* max_attempts of api_client
MaxAttempts == 10
\* range(3) of make_request
RetryAttempts == 3
\* what something listening on the port can answer to GET /health
HealthStatuses == {200, 503}

\* callers of make_request: 0 is the test's own thread
Callers == 0..t_threads
Threads == 1..t_threads

NoCall == [method |-> "", url |-> "", attempt |-> 0, failed |-> 0,
           outcome |-> <<>>]
StartCall(method, url) ==
    [method |-> method, url |-> url, attempt |-> 0, failed |-> 0,
     outcome |-> <<>>]
InCall(c) == calls[c].method # "" /\ calls[c].outcome = <<>>
HasOutcome(c) == calls[c].method # "" /\ calls[c].outcome # <<>>
\* json= of the call: only the test's own thread posts
BodyOf(c) == IF c = 0 THEN t_input ELSE <<>>

SessionInit ==
    /\ t_test \in Tests
    /\ IF t_test = "workflow"
       THEN /\ t_input \in PatientInputs
            /\ t_threads = 0
       ELSE /\ t_input = <<>>
            /\ t_threads \in 1..MaxThreads
    /\ fx_pc = "loop"
    /\ fx_attempt = 0
    /\ fx_ok = FALSE
    /\ t_pc = "setup"
    /\ t_idx = 0
    /\ calls = [c \in Callers |-> NoCall]
    /\ th_pc = [t \in Threads |-> "new"]
    /\ th_statuses = [t \in Threads |-> <<>>]
    /\ thread_results = <<>>
    /\ created = <<>>
    /\ listed = <<>>
    /\ collected = <<>>
    /\ net_faults = 0

\* session.get(/health) answers 200: break, then yield session (attempt is
\* not read after the loop and is put back to 0)
api_client_available ==
    /\ fx_pc = "loop"
    /\ fx_attempt < MaxAttempts
    /\ fx_ok' = TRUE
    /\ fx_pc' = "yielded"
    /\ fx_attempt' = 0
    /\ UNCHANGED << t_test, t_input, t_threads, t_pc, t_idx, calls, th_pc,
                    th_statuses, thread_results, created, listed, collected,
                    net_faults >>
    /\ UNCHANGED sessionFrame

\* session.get(/health) answers with another status: nothing is raised and
\* nothing is awaited, the for loop goes on; after the last attempt the loop
\* is over and the fixture yields the session
api_client_other_status ==
    /\ fx_pc = "loop"
    /\ fx_attempt < MaxAttempts
    /\ \E status_code \in HealthStatuses \ {200} :
        IF fx_attempt + 1 = MaxAttempts
        THEN /\ fx_pc' = "yielded"
             /\ fx_attempt' = 0
        ELSE /\ fx_attempt' = fx_attempt + 1
             /\ UNCHANGED fx_pc
    /\ UNCHANGED << t_test, t_input, t_threads, fx_ok, t_pc, t_idx, calls,
                    th_pc, th_statuses, thread_results, created, listed,
                    collected, net_faults >>
    /\ UNCHANGED sessionFrame

\* except requests.exceptions.ConnectionError: pytest.fail on the last
\* attempt, a warning and time.sleep(2) before it
api_client_connection_error ==
    /\ fx_pc = "loop"
    /\ fx_attempt < MaxAttempts
    /\ IF fx_attempt = MaxAttempts - 1
       THEN /\ fx_pc' = "failed"
            /\ UNCHANGED fx_attempt
       ELSE /\ fx_attempt' = fx_attempt + 1
            /\ UNCHANGED fx_pc
    /\ UNCHANGED << t_test, t_input, t_threads, fx_ok, t_pc, t_idx, calls,
                    th_pc, th_statuses, thread_results, created, listed,
                    collected, net_faults >>
    /\ UNCHANGED sessionFrame

\* session.get raises something that is not a ConnectionError: the
\* exception leaves the fixture and pytest reports an error
api_client_other_exception ==
    /\ fx_pc = "loop"
    /\ fx_attempt < MaxAttempts
    /\ fx_pc' = "error"
    /\ UNCHANGED << t_test, t_input, t_threads, fx_attempt, fx_ok, t_pc,
                    t_idx, calls, th_pc, th_statuses, thread_results, created,
                    listed, collected, net_faults >>
    /\ UNCHANGED sessionFrame

\* a make_request that raises as soon as an attempt fails
make_request_raises_no_retry(c) ==
    /\ InCall(c)
    /\ net_faults < MaxNetFaults
    /\ net_faults' = net_faults + 1
    /\ calls' = [calls EXCEPT
            ![c].failed = @ + 1,
            ![c].outcome =
                << [kind |-> "raised",
                    error |-> [type |-> "RequestException",
                               attempt |-> calls[c].attempt]] >>]
    /\ UNCHANGED << t_test, t_input, t_threads, fx_pc, fx_attempt, fx_ok,
                    t_pc, t_idx, th_pc, th_statuses, thread_results, created,
                    listed, collected >>
    /\ UNCHANGED sessionFrame

\* self.client.request(...) returns: return response
make_request_returns(c) ==
    /\ InCall(c)
    /\ calls' = [calls EXCEPT
            ![c].outcome =
                << [kind |-> "returned",
                    value |-> << Route(calls[c].method, calls[c].url,
                                       BodyOf(c)) >>] >>]
    /\ UNCHANGED << t_test, t_input, t_threads, fx_pc, fx_attempt, fx_ok,
                    t_pc, t_idx, th_pc, th_statuses, thread_results, created,
                    listed, collected, net_faults >>
    /\ UNCHANGED sessionFrame

\* self.client.request(...) raises a RequestException e: raise e on the
\* last attempt, time.sleep(1) and the next attempt before it
make_request_raises(c) ==
    /\ InCall(c)
    /\ net_faults < MaxNetFaults
    /\ net_faults' = net_faults + 1
    /\ IF calls[c].attempt = RetryAttempts - 1
       THEN calls' = [calls EXCEPT
                ![c].failed = @ + 1,
                ![c].outcome =
                    << [kind |-> "raised",
                        error |-> [type |-> "RequestException",
                                   attempt |-> calls[c].attempt]] >>]
       ELSE calls' = [calls EXCEPT
                ![c].failed = @ + 1,
                ![c].attempt = @ + 1]
    /\ UNCHANGED << t_test, t_input, t_threads, fx_pc, fx_attempt, fx_ok,
                    t_pc, t_idx, th_pc, th_statuses, thread_results, created,
                    listed, collected >>
    /\ UNCHANGED sessionFrame

(* ======================================================================== *)
(* tests/: the test functions                                               *)
(* ======================================================================== *)

\* pytest calls the test with the yielded session: the workflow test posts
\* the patient, a concurrency test enters its loop that starts the threads
test_begin ==
    /\ fx_pc = "yielded"
    /\ t_pc = "setup"
    /\ IF t_test = "workflow"
       THEN /\ calls' = [calls EXCEPT
                    ![0] = StartCall("POST", "/api/v1/patients")]
            /\ t_pc' = "post"
            /\ UNCHANGED t_idx
       ELSE /\ t_pc' = "spawn"
            /\ t_idx' = 1
            /\ UNCHANGED calls
    /\ UNCHANGED << t_test, t_input, t_threads, fx_pc, fx_attempt, fx_ok,
                    th_pc, th_statuses, thread_results, created, listed,
                    collected, net_faults >>
    /\ UNCHANGED sessionFrame

\* the POST is over: the test keeps the response and asks for the list
workflow_created ==
    /\ t_pc = "post"
    /\ HasOutcome(0)
    /\ IF calls[0].outcome[1].kind = "returned"
       THEN /\ created' = calls[0].outcome[1].value
            /\ calls' = [calls EXCEPT
                    ![0] = StartCall("GET", "/api/v1/patients")]
            /\ t_pc' = "get"
       ELSE /\ t_pc' = "error"
            /\ UNCHANGED << created, calls >>
    /\ UNCHANGED << t_test, t_input, t_threads, fx_pc, fx_attempt, fx_ok,
                    t_idx, th_pc, th_statuses, thread_results, listed,
                    collected, net_faults >>
    /\ UNCHANGED sessionFrame

\* the GET is over: the test keeps the list
workflow_listed ==
    /\ t_pc = "get"
    /\ HasOutcome(0)
    /\ IF calls[0].outcome[1].kind = "returned"
       THEN /\ listed' = calls[0].outcome[1].value
            /\ t_pc' = "done"
       ELSE /\ t_pc' = "error"
            /\ UNCHANGED listed
    /\ UNCHANGED << t_test, t_input, t_threads, fx_pc, fx_attempt, fx_ok,
                    t_idx, calls, th_pc, th_statuses, thread_results, created,
                    collected, net_faults >>
    /\ UNCHANGED sessionFrame

\* thread = threading.Thread(target=...); thread.start(): the thread enters
\* its first make_request; after the last start the join loop begins
thread_start ==
    /\ t_pc = "spawn"
    /\ th_pc' = [th_pc EXCEPT ![t_idx] = "running"]
    /\ calls' = [calls EXCEPT
            ![t_idx] = StartCall("GET", ThreadUrls(t_test)[1])]
    /\ IF t_idx = t_threads
       THEN /\ t_pc' = "join"
            /\ t_idx' = 1
       ELSE /\ t_idx' = t_idx + 1
            /\ UNCHANGED t_pc
    /\ UNCHANGED << t_test, t_input, t_threads, fx_pc, fx_attempt, fx_ok,
                    th_statuses, thread_results, created, listed, collected,
                    net_faults >>
    /\ UNCHANGED sessionFrame

\* make_request is over in thread t: a response goes to the next request
\* or to the put of the success entry, an exception to the except clause
thread_continue(t) ==
    /\ th_pc[t] = "running"
    /\ HasOutcome(t)
    /\ IF calls[t].outcome[1].kind = "returned"
       THEN /\ th_statuses' = [th_statuses EXCEPT
                    ![t] = Append(@, calls[t].outcome[1].value[1].status_code)]
            /\ IF Len(th_statuses[t]) + 1 < Len(ThreadUrls(t_test))
               THEN /\ calls' = [calls EXCEPT
                            ![t] = StartCall("GET",
                                ThreadUrls(t_test)[Len(th_statuses[t]) + 2])]
                    /\ UNCHANGED th_pc
               ELSE /\ th_pc' = [th_pc EXCEPT ![t] = "put"]
                    /\ UNCHANGED calls
       ELSE /\ th_pc' = [th_pc EXCEPT ![t] = "put_error"]
            /\ UNCHANGED << calls, th_statuses >>
    /\ UNCHANGED << t_test, t_input, t_threads, fx_pc, fx_attempt, fx_ok,
                    t_pc, t_idx, thread_results, created, listed, collected,
                    net_faults >>
    /\ UNCHANGED sessionFrame

\* results.put(...) / results.append(...) and the end of the thread
thread_put(t) ==
    /\ th_pc[t] \in {"put", "put_error"}
    /\ thread_results' = Append(thread_results,
            [thread |-> t, success |-> th_pc[t] = "put",
             statuses |-> th_statuses[t]])
    /\ th_pc' = [th_pc EXCEPT ![t] = "done"]
    /\ UNCHANGED << t_test, t_input, t_threads, fx_pc, fx_attempt, fx_ok,
                    t_pc, t_idx, calls, th_statuses, created, listed,
                    collected, net_faults >>
    /\ UNCHANGED sessionFrame

\* a join that returns while the thread is still running
thread_join_no_wait ==
    /\ t_pc = "join"
    /\ IF t_idx = t_threads
       THEN /\ t_pc' = "collect"
            /\ UNCHANGED t_idx
       ELSE /\ t_idx' = t_idx + 1
            /\ UNCHANGED t_pc
    /\ UNCHANGED << t_test, t_input, t_threads, fx_pc, fx_attempt, fx_ok,
                    calls, th_pc, th_statuses, thread_results, created, listed,
                    collected, net_faults >>
    /\ UNCHANGED sessionFrame

\* for thread in threads: thread.join() returns once that thread has ended
thread_join ==
    /\ t_pc = "join"
    /\ th_pc[t_idx] = "done"
    /\ IF t_idx = t_threads
       THEN /\ t_pc' = "collect"
            /\ UNCHANGED t_idx
       ELSE /\ t_idx' = t_idx + 1
            /\ UNCHANGED t_pc
    /\ UNCHANGED << t_test, t_input, t_threads, fx_pc, fx_attempt, fx_ok,
                    calls, th_pc, th_statuses, thread_results, created, listed,
                    collected, net_faults >>
    /\ UNCHANGED sessionFrame

\* the test reads what the threads left in results
collect_results ==
    /\ t_pc = "collect"
    /\ collected' = << thread_results >>
    /\ t_pc' = "done"
    /\ UNCHANGED << t_test, t_input, t_threads, fx_pc, fx_attempt, fx_ok,
                    t_idx, calls, th_pc, th_statuses, thread_results, created,
                    listed, net_faults >>
    /\ UNCHANGED sessionFrame

SessionStart ==
    /\ SessionInit
    /\ QaIdle
    /\ SonarIdle
    /\ ScanIdle

SessionNext ==
    \/ api_client_available
    \/ api_client_other_status
    \/ api_client_connection_error
    \/ api_client_other_exception
    \/ test_begin
    \/ \E c \in Callers : make_request_returns(c)
    \/ \E c \in Callers : make_request_raises(c)
    \/ workflow_created
    \/ workflow_listed
    \/ thread_start
    \/ \E t \in Threads : thread_continue(t)
    \/ \E t \in Threads : thread_put(t)
    \/ thread_join
    \/ collect_results

SessionSpec == SessionStart /\ [][SessionNext]_vars

\* the value the test submitted for a field it submitted
Submitted(field) == t_input[field]

\* patient p of a list carries the id the creation returned and the values
\* the test submitted
IsCreatedPatient(p) ==
    /\ p.id = created[1].json.patient.id
    /\ "name" \in DOMAIN t_input => p.name = Submitted("name")
    /\ "age" \in DOMAIN t_input => p.age = Submitted("age")
    /\ "email" \in DOMAIN t_input => p.email = Submitted("email")

\* C21: after a patient was created with POST /api/v1/patients, the list a
\* later GET /api/v1/patients returns holds a patient with the id of the
\* creation and the submitted name, age and email
C21_CreatedIsListed ==
    (created # <<>> /\ listed # <<>>) =>
        \E i \in 1..Len(listed[1].json.patients) :
            IsCreatedPatient(listed[1].json.patients[i])

C23_NameSanitized ==
    (created # <<>> /\ "name" \in DOMAIN t_input) =>
        (created[1].status_code = 200 =>
            \A tag \in ExecutableTags :
                ContainsTag(Submitted("name"), tag)
                    => ~ContainsTag(created[1].json.patient.name, tag))

\* entry e of the collected results is what one thread of the test leaves
\* when nothing or only the network fails
SoundEntry(e) ==
    /\ \A j \in 1..Len(e.statuses) : e.statuses[j] = 200
    /\ e.success => Len(e.statuses) = Len(ThreadUrls(t_test))
    /\ ~e.success =>
        /\ HasOutcome(e.thread)
        /\ calls[e.thread].outcome[1].kind = "raised"

\* C24: with N threads issuing GET requests concurrently, every answered
\* request has status 200 and, once all threads are joined, the test finds
\* exactly one result per thread, N in all, whatever the interleaving; a
\* result reports a failure only if the thread's request raised
C24_OneResultPerThread ==
    /\ \A c \in DOMAIN calls :
        (HasOutcome(c) /\ calls[c].method = "GET"
            /\ calls[c].outcome[1].kind = "returned")
        => calls[c].outcome[1].value[1].status_code = 200
    /\ collected # <<>> =>
        /\ Len(collected[1]) = t_threads
        /\ \A t \in Threads :
            Cardinality({ i \in 1..Len(collected[1]) :
                            collected[1][i].thread = t }) = 1
        /\ \A i \in 1..Len(collected[1]) : SoundEntry(collected[1][i])
        /\ net_faults = 0 =>
            \A i \in 1..Len(collected[1]) : collected[1][i].success

C24_Witness ==
    /\ collected # <<>>
    /\ t_test = "concurrent_access"
    /\ t_threads >= 2
    /\ collected[1][1].thread = 2
    /\ \A i \in 1..Len(collected[1]) : collected[1][i].success

\* C26: make_request makes at most three attempts, returns the response of
\* the first attempt that raises no request exception, tries again after a
\* failed first or second attempt, raises the exception of the third attempt
\* when that fails too, and never returns without a response
C26_ThreeAttempts ==
    \A c \in DOMAIN calls :
        /\ calls[c].attempt \in 0..2
        /\ InCall(c) => calls[c].failed = calls[c].attempt
        /\ HasOutcome(c) =>
            /\ calls[c].outcome[1].kind = "returned" =>
                /\ calls[c].outcome[1].value # <<>>
                /\ calls[c].failed = calls[c].attempt
            /\ calls[c].outcome[1].kind = "raised" =>
                /\ calls[c].failed = 3
                /\ calls[c].outcome[1].error.attempt = 2

C26_Witness ==
    /\ t_pc = "error"
    /\ created # <<>>
    /\ calls[0].outcome[1].kind = "raised"
    /\ calls[0].failed = 3

====
